---- MODULE Spec2Model ----
(***************************************************************************)
(* Model of memo_module.py: the SmartMirrorMemo coordinator, its           *)
(* AudioRecorder and VideoRecorder, and the capture threads they spawn.    *)
(*                                                                         *)
(* Granularity.  A coordinator method (start_voice_memo, start_video_memo, *)
(* stop_recording) is split at every read or write of current_mode and at  *)
(* every recorder call, so that two Python threads can interleave there.   *)
(* A recorder's start_recording is one step; a recorder's stop_recording   *)
(* is two steps, split at the bounded join of the capture thread.          *)
(* A file name is a sequence of string tokens, so that str.replace and the *)
(* f-strings that build the names are computed, not assumed.               *)
(* Both lifecycle callbacks are registered before the first call, as        *)
(* memo_demo.py and the module's own test block do.  An AudioRecorder that  *)
(* nothing refers to any more (no attribute, no running thread, no frame    *)
(* of a call) is reclaimed: its slot returns to the constructor's state.    *)
(***************************************************************************)
EXTENDS Integers, Sequences, FiniteSets, TLC

\* ----------------------------------------------------------------- bounds
\* The wall clock takes the values 0..MaxClock (seconds).
MaxClock == 1
\* Number of calls made to the coordinator.
MaxCalls == 3
\* Chunks one capture buffer holds before the capture loop is paused.
MaxChunks == 1
\* Frames written to one video file.
MaxFrames == 1
\* The files a storage directory holds at most when it is scanned.
MaxDir == 3
\* The phrases of a recognized text, at most.
MaxText == 3
\* A listen thread delivers a command while fewer coordinator calls than this
\* have been made.
MaxCommands == 2

\* ------------------------------------------------------------ file names
None == <<>>

SaveDir == "memos"

\* datetime.now().strftime("%Y%m%d_%H%M%S"), for the clock value n.
Seconds == <<"120000", "120001", "120002", "120003", "120004", "120005">>

Strftime(n) == <<"20240101", "_", Seconds[n + 1]>>

\* os.path.join(save_dir, name)
PathJoin(dir, name) == <<dir, "/">> \o name

\* f"voice_memo_{timestamp}.wav" under save_dir
VoicePath(n) == PathJoin(SaveDir, <<"voice", "_", "memo", "_">> \o Strftime(n) \o <<".wav">>)

\* f"video_memo_{timestamp}.mp4" under save_dir
VideoPath(n) == PathJoin(SaveDir, <<"video", "_", "memo", "_">> \o Strftime(n) \o <<".mp4">>)

\* str.replace(old, new) for a one-token old: every occurrence is replaced.
RECURSIVE Replace(_, _, _)
Replace(s, old, new) ==
    IF s = <<>> THEN <<>>
    ELSE IF Head(s) = old THEN new \o Replace(Tail(s), old, new)
    ELSE <<Head(s)>> \o Replace(Tail(s), old, new)

\* self._current_file.replace('.mp4', '_audio.wav')
SidecarPath(p) == Replace(p, ".mp4", <<"_", "audio", ".wav">>)

\* ------------------------------------------------------------------ state
VARIABLES
    pyaudio,        \* PYAUDIO_AVAILABLE
    speech,         \* SPEECH_RECOGNITION_AVAILABLE
    outer,          \* what each thread runs around its coordinator calls
    now,            \* the wall clock, in seconds
    is_active,      \* SmartMirrorMemo.is_active
    is_listening,   \* VoiceRecognizer.is_listening
    current_mode,   \* SmartMirrorMemo.current_mode: "None", "voice", "video"
    recs,           \* the AudioRecorder objects; recs[1] is SmartMirrorMemo.audio_recorder
    video_recorder, \* SmartMirrorMemo.video_recorder
    threads,        \* the live capture threads (AudioRecorder._record_loop)
    files,          \* the storage directory: a set of [path, content, mtime]
    pc,             \* where each coordinator thread stands
    loc,            \* each coordinator thread's call: its locals, then its result
    cb,             \* the lifecycle callbacks fired since the last accepted start
    events,         \* the recorder calls made since the last accepted start
    ncalls,         \* coordinator calls made so far
    nthreads        \* capture threads spawned so far

vars == <<pyaudio, speech, outer, now, is_active, is_listening, current_mode,
          recs, video_recorder, threads, files, pc, loc, cb, events, ncalls, nthreads>>

\* The threads a VoiceRecognizer starts for _listen_loop: the one of the
\* first start_listening, and one more for a start_listening that comes
\* while the first is still alive.
ListenThreads == {"listener", "listener2"}

\* The application's main thread, the listen threads, and the thread that
\* runs the player window (memo_demo.py line 161).
Threads == {"caller", "player"} \cup ListenThreads

\* outer[t] of a thread that runs nothing around its calls: the caller
\* between calls of SmartMirrorMemo.stop, a listen thread not started or ended.
OuterInit == [t \in Threads |-> IF t \in ListenThreads THEN "off" ELSE "none"]

\* SmartMirrorMemo.audio_recorder
CoordRec == 1

\* VideoRecorder._audio_recorder is None
NoRec == 0

\* AudioRecorder.__init__
AudioRecorderInit == [is_recording |-> FALSE, current_file |-> None, frames |-> <<>>]

\* VideoRecorder._video_writer is None
NoWriter == [exists |-> FALSE, path |-> None, opened |-> FALSE]

\* VideoRecorder.__init__
VideoRecorderInit ==
    [is_recording |-> FALSE, current_file |-> None,
     video_writer |-> NoWriter, audio_recorder |-> NoRec]

\* A call frame: the call's name and argument, its locals (mode, filepath,
\* sidecar), what the call found on entry (entry_mode, entry_audio), which
\* error it met (fault), and its result (ret, status).
LocInit ==
    [op |-> "none", arg |-> None, mode |-> "None", filepath |-> None, sidecar |-> NoRec,
     entry_mode |-> "None", entry_audio |-> FALSE, fault |-> "none",
     ret |-> None, status |-> "none"]

\* The state after SmartMirrorMemo() is constructed, speech_recognition
\* being importable (sp) or not.
InitWith(sp) ==
    /\ pyaudio \in BOOLEAN
    /\ speech = sp
    /\ outer = OuterInit
    /\ now = 0
    /\ is_active = FALSE
    /\ is_listening = FALSE
    /\ current_mode = "None"
    /\ recs = <<AudioRecorderInit>>
    /\ video_recorder = VideoRecorderInit
    /\ threads = {}
    /\ files = {}
    /\ pc = [t \in Threads |-> "idle"]
    /\ loc = [t \in Threads |-> LocInit]
    /\ cb = <<>>
    /\ events = {}
    /\ ncalls = 0
    /\ nthreads = 0

\* The coordinator constructed with speech_recognition installed.
Init == InitWith(TRUE)

\* The coordinator constructed with or without speech_recognition.
InitListen == \E sp \in BOOLEAN : InitWith(sp)

\* ------------------------------------------------------------ the storage
FileExists(p) == \E f \in files : f.path = p

FileContent(p) == (CHOOSE f \in files : f.path = p).content

\* open(path, 'wb') and write: the file holds exactly `content` afterwards,
\* and was last modified at the second the clock shows.
WriteFile(fs, p, content) ==
    {f \in fs : f.path # p} \cup {[path |-> p, content |-> content, mtime |-> now]}

\* ----------------------------------------------------------------- clock
\* datetime.now(): the clock is looked at only here, so it advances here, by
\* no second or by one since it was last read. A call that does not read the
\* clock leaves it alone.
ClockRead(reads) == IF reads THEN {n \in {now, now + 1} : n <= MaxClock} ELSE {now}

\* --------------------------------------------------------- AudioRecorder
\* AudioStarts without the early return of line 148: a recording recorder
\* starts over.
AudioStarts_Again(r) == pyaudio

\* start_recording gets past its two early returns (lines 144 and 148).
AudioStarts(r) == pyaudio /\ ~r.is_recording

\* The recorder after start_recording called at clock value n.
AudioStartRecording(r, n) ==
    IF AudioStarts(r)
    THEN [is_recording |-> TRUE, current_file |-> VoicePath(n), frames |-> <<>>]
    ELSE r

\* What start_recording returns.
AudioStartReturn(r, n) ==
    IF ~pyaudio THEN None
    ELSE IF r.is_recording THEN r.current_file
    ELSE VoicePath(n)

\* threading.Thread(target=self._record_loop).start() for recorder id.
Spawn(id) == [rec |-> id, sess |-> nthreads + 1, pc |-> "check"]

\* AudioSaves without the test for captured frames: an empty buffer is saved too.
AudioSaves_Always(r) == r.current_file # None

\* The stop_recording tail after the join: _save_wav when something was captured.
AudioSaves(r) == r.frames # <<>> /\ r.current_file # None

\* What stop_recording returns after the join.
AudioStopReturn(r) == IF AudioSaves(r) THEN r.current_file ELSE None

\* _save_wav: the write succeeds (ok) or raises and is caught (line 215).
SaveWav(fs, r, ok) == IF ok THEN WriteFile(fs, r.current_file, r.frames) ELSE fs

\* ------------------------------------------------------------- callbacks
\* A call of `op` on recorder `obj`, which holds `path`; k numbers the calls
\* that are alike, so that the set counts them.
Logged(es, obj, op, path) ==
    es \cup {[obj |-> obj, op |-> op, path |-> path,
              k |-> 1 + Cardinality({e \in es : e.obj = obj /\ e.op = op /\ e.path = path})]}

OnRecordingStart(mode) == Append(cb, [kind |-> "start", mode |-> mode, path |-> None])

\* OnRecordingStop with the callback not fired.
OnRecordingStop_Silent(mode, path) == cb

OnRecordingStop(mode, path) == Append(cb, [kind |-> "stop", mode |-> mode, path |-> path])

\* ------------------------------------------------ coordinator: call frames
\* Busy with the check left out: a start is never refused.
Busy_Never(m) == FALSE

\* Busy testing for one mode only.
Busy_OnlyVoice(m) == m = "voice"

\* Busy with the test inverted for the idle state: a stop is never refused.
Busy_Always(m) == TRUE

\* `if self.current_mode:` (lines 425, 439 and 458)
Busy(m) == m # "None"

\* SmartMirrorMemo.is_recording
IsRecording == current_mode # "None"

\* The frame of a call of `name` entered by thread t.
Enter(t, name) ==
    [LocInit EXCEPT !.op = name, !.entry_mode = current_mode,
                    !.entry_audio = recs[CoordRec].is_recording, !.status = "running"]

Goto(t, label) == pc' = [pc EXCEPT ![t] = label]

\* Thread t's call ends, returning `value` or raising: pc[t] = "ret" is the
\* point where its caller has the result in hand.
Finish(t, l, value, status) ==
    /\ loc' = [loc EXCEPT ![t] = [LocInit EXCEPT !.op = l.op, !.arg = l.arg,
                                                 !.entry_mode = l.entry_mode,
                                                 !.entry_audio = l.entry_audio,
                                                 !.fault = l.fault,
                                                 !.ret = value, !.status = status]]
    /\ Goto(t, "ret")

Return(t, l, value) == Finish(t, l, value, "returned")

Raise(t, l) == Finish(t, l, None, "raised")

\* What no recorder call and no step inside a coordinator call changes: the
\* libraries that were importable, and what each thread runs around its calls.
Env == <<pyaudio, speech, outer>>

\* The AudioRecorder objects something still refers to: the coordinator's own,
\* the VideoRecorder's sidecar, the target of a running capture thread, the
\* self of a stop_recording under way.
Referenced(vr, ths, lc) ==
    {CoordRec, vr.audio_recorder}
        \cup {th.rec : th \in ths} \cup {lc[t].sidecar : t \in Threads}

Reclaim(rs, vr, ths, lc) ==
    [i \in DOMAIN rs |-> IF i \in Referenced(vr, ths, lc) THEN rs[i] ELSE AudioRecorderInit]

\* ------------------------------------------------------ start_voice_memo
\* `if self.current_mode: ... return` (lines 425-427)
StartVoiceMemo_Check(t) ==
    /\ pc[t] = "idle"
    /\ ncalls < MaxCalls
    /\ ncalls' = ncalls + 1
    /\ IF Busy(current_mode)
       THEN /\ Return(t, Enter(t, "start_voice_memo"), None)
       ELSE /\ loc' = [loc EXCEPT ![t] = Enter(t, "start_voice_memo")]
            /\ Goto(t, "sv_set")
    /\ UNCHANGED <<Env, now, is_active, is_listening, current_mode, recs, video_recorder,
                   threads, files, cb, events, nthreads>>

\* self.current_mode = "voice" (line 429)
StartVoiceMemo_Set(t) ==
    /\ pc[t] = "sv_set"
    /\ current_mode' = "voice"
    /\ events' = {}
    /\ cb' = <<>>
    /\ Goto(t, "sv_rec")
    /\ UNCHANGED <<Env, now, is_active, is_listening, recs, video_recorder,
                   threads, files, loc, ncalls, nthreads>>

\* AudioRecorder.start_recording called by thread t on the coordinator's
\* recorder; the result lands in t's local `filepath`.
AudioRecorder_StartRecording(t) ==
    \E n \in ClockRead(AudioStarts(recs[CoordRec])) :
        LET r == recs[CoordRec]
            r2 == AudioStartRecording(r, n)
        IN /\ now' = n
           /\ recs' = [recs EXCEPT ![CoordRec] = r2]
           /\ threads' = IF AudioStarts(r) THEN threads \cup {Spawn(CoordRec)} ELSE threads
           /\ nthreads' = IF AudioStarts(r) THEN nthreads + 1 ELSE nthreads
           /\ loc' = [loc EXCEPT ![t].filepath = AudioStartReturn(r, n)]
           /\ events' = Logged(events, "audio", "start", r2.current_file)

\* filepath = self.audio_recorder.start_recording() (line 430)
StartVoiceMemo_Rec(t) ==
    /\ pc[t] = "sv_rec"
    /\ AudioRecorder_StartRecording(t)
    /\ Goto(t, "sv_cb")
    /\ UNCHANGED <<Env, is_active, is_listening, current_mode, video_recorder,
                   files, cb, ncalls>>

\* on_recording_start("voice"); return filepath (lines 432-435)
StartVoiceMemo_Cb(t) ==
    /\ pc[t] = "sv_cb"
    /\ cb' = OnRecordingStart("voice")
    /\ Return(t, loc[t], loc[t].filepath)
    /\ UNCHANGED <<Env, now, is_active, is_listening, current_mode, recs, video_recorder,
                   threads, files, events, ncalls, nthreads>>

\* ------------------------------------------- VideoRecorder.start_recording
\* cv2.VideoWriter(path, ...): the container file appears when it opens.
OpenWriter(fs, p, opened) == IF opened THEN WriteFile(fs, p, <<>>) ELSE fs

\* SidecarStarted with the `if PYAUDIO_AVAILABLE` of line 262 left out.
SidecarStarted_Regardless(vpath, n) ==
    [AudioRecorderInit EXCEPT !.current_file = SidecarPath(vpath), !.is_recording = TRUE]

\* The sidecar AudioRecorder as left by lines 259-263: constructed, given the
\* path derived from the video path, and started when the audio backend exists.
\* n is the clock value its own start_recording reads.
SidecarStarted(vpath, n) ==
    LET fresh == [AudioRecorderInit EXCEPT !.current_file = SidecarPath(vpath)]
    IN IF pyaudio THEN AudioStartRecording(fresh, n) ELSE fresh

\* The whole of VideoRecorder.start_recording; both datetime.now() calls
\* (lines 246 and 153) read the same second.
VideoStartRecording(t) ==
    IF video_recorder.is_recording
    THEN /\ loc' = [loc EXCEPT ![t].filepath = video_recorder.current_file]
         /\ events' = Logged(events, "video", "start", video_recorder.current_file)
         /\ UNCHANGED <<now, recs, video_recorder, threads, files, nthreads>>
    ELSE \E n \in ClockRead(TRUE) :
            LET vpath == VideoPath(n)
                id == Len(recs) + 1
                side == SidecarStarted(vpath, n)
                opened == TRUE
            IN /\ now' = n
               /\ files' = OpenWriter(files, vpath, opened)
               /\ threads' = IF side.is_recording THEN threads \cup {Spawn(id)} ELSE threads
               /\ nthreads' = IF side.is_recording THEN nthreads + 1 ELSE nthreads
               /\ video_recorder' =
                     [is_recording |-> TRUE, current_file |-> vpath,
                      video_writer |-> [exists |-> TRUE, path |-> vpath, opened |-> opened],
                      audio_recorder |-> id]
               /\ events' = LET vs == Logged(events, "video", "start", vpath)
                             IN IF pyaudio
                                THEN Logged(vs, "sidecar", "start", side.current_file)
                                ELSE vs
               /\ loc' = [loc EXCEPT ![t].filepath = vpath]
               /\ recs' = Reclaim(Append(recs, side), video_recorder', threads', loc')

\* ------------------------------------------------------ start_video_memo
\* `if self.current_mode: ... return` (lines 439-441)
StartVideoMemo_Check(t) ==
    /\ pc[t] = "idle"
    /\ ncalls < MaxCalls
    /\ ncalls' = ncalls + 1
    /\ IF Busy(current_mode)
       THEN /\ Return(t, Enter(t, "start_video_memo"), None)
       ELSE /\ loc' = [loc EXCEPT ![t] = Enter(t, "start_video_memo")]
            /\ Goto(t, "sd_set")
    /\ UNCHANGED <<Env, now, is_active, is_listening, current_mode, recs, video_recorder,
                   threads, files, cb, events, nthreads>>

\* self.current_mode = "video" (line 443)
StartVideoMemo_Set(t) ==
    /\ pc[t] = "sd_set"
    /\ current_mode' = "video"
    /\ events' = {}
    /\ cb' = <<>>
    /\ Goto(t, "sd_rec")
    /\ UNCHANGED <<Env, now, is_active, is_listening, recs, video_recorder,
                   threads, files, loc, ncalls, nthreads>>

\* filepath = self.video_recorder.start_recording(frame_size) (line 444)
StartVideoMemo_Rec(t) ==
    /\ pc[t] = "sd_rec"
    /\ VideoStartRecording(t)
    /\ Goto(t, "sd_cb")
    /\ UNCHANGED <<Env, is_active, is_listening, current_mode, cb, ncalls>>

\* on_recording_start("video"); return filepath (lines 446-449)
StartVideoMemo_Cb(t) ==
    /\ pc[t] = "sd_cb"
    /\ cb' = OnRecordingStart("video")
    /\ Return(t, loc[t], loc[t].filepath)
    /\ UNCHANGED <<Env, now, is_active, is_listening, current_mode, recs, video_recorder,
                   threads, files, events, ncalls, nthreads>>

\* ----------------------------------------------------- write_video_frame
\* VideoRecorder.write_frame: the frame (resized when needed) reaches the writer.
WriteFrame(fs) ==
    IF video_recorder.is_recording /\ video_recorder.video_writer.exists
    THEN IF video_recorder.video_writer.opened
         THEN WriteFile(fs, video_recorder.video_writer.path,
                        Append(FileContent(video_recorder.video_writer.path), 0))
         ELSE fs
    ELSE fs

\* SmartMirrorMemo.write_video_frame's guard (line 453)
FrameForwarded == current_mode = "video" /\ video_recorder.is_recording

\* WriteVideoFrame with both guards (lines 453 and 271) left out: the frame
\* goes to whatever writer there is.
WriteVideoFrame_NoGuards(t) ==
    /\ pc[t] = "idle"
    /\ ncalls < MaxCalls
    /\ ncalls' = ncalls + 1
    /\ files' = IF video_recorder.video_writer.exists
                THEN WriteFile(files, video_recorder.video_writer.path, <<0>>)
                ELSE files
    /\ Return(t, Enter(t, "write_video_frame"), <<"forwarded">>)
    /\ UNCHANGED <<Env, now, is_active, is_listening, current_mode, recs, video_recorder,
                   threads, cb, events, nthreads>>

\* The call returns "forwarded" or "dropped" here, to tell the two apart.
WriteVideoFrame(t) ==
    /\ pc[t] = "idle"
    /\ ncalls < MaxCalls
    /\ ncalls' = ncalls + 1
    /\ (FrameForwarded /\ video_recorder.video_writer.opened)
          => /\ FileExists(video_recorder.video_writer.path)
             /\ Len(FileContent(video_recorder.video_writer.path)) < MaxFrames
    /\ files' = IF FrameForwarded THEN WriteFrame(files) ELSE files
    /\ Return(t, Enter(t, "write_video_frame"),
              IF FrameForwarded THEN <<"forwarded">> ELSE <<"dropped">>)
    /\ UNCHANGED <<Env, now, is_active, is_listening, current_mode, recs, video_recorder,
                   threads, cb, events, nthreads>>

\* --------------------------------------------------------- stop_recording
\* `if not self.current_mode: return None` (line 458)
StopRecording_Check(t) ==
    /\ pc[t] = "idle"
    /\ ncalls < MaxCalls
    /\ ncalls' = ncalls + 1
    /\ IF ~Busy(current_mode)
       THEN /\ Return(t, Enter(t, "stop_recording"), None)
       ELSE /\ loc' = [loc EXCEPT ![t] = Enter(t, "stop_recording")]
            /\ Goto(t, "st_mode")
    /\ UNCHANGED <<Env, now, is_active, is_listening, current_mode, recs, video_recorder,
                   threads, files, cb, events, nthreads>>

\* filepath = None; mode = self.current_mode (lines 461-462)
StopRecording_Mode(t) ==
    /\ pc[t] = "st_mode"
    /\ loc' = [loc EXCEPT ![t].mode = current_mode, ![t].filepath = None]
    /\ Goto(t, "st_voice")
    /\ UNCHANGED <<Env, now, is_active, is_listening, current_mode, recs, video_recorder,
                   threads, files, cb, events, ncalls, nthreads>>

\* `if self.current_mode == "voice":` and the head of AudioRecorder.stop_recording
\* (lines 464-465, 166-169): the flag is cleared, the join is still to come.
StopRecording_Voice(t) ==
    /\ pc[t] = "st_voice"
    /\ IF current_mode = "voice"
       THEN /\ events' = Logged(events, "audio", "stop", recs[CoordRec].current_file)
            /\ IF recs[CoordRec].is_recording
               THEN /\ recs' = [recs EXCEPT ![CoordRec].is_recording = FALSE]
                    /\ Goto(t, "st_ajoin")
                    /\ loc' = loc
               ELSE /\ recs' = recs
                    /\ loc' = [loc EXCEPT ![t].filepath = None]
                    /\ Goto(t, "st_clear")
       ELSE /\ Goto(t, "st_video")
            /\ UNCHANGED <<recs, loc, events>>
    /\ UNCHANGED <<Env, now, is_active, is_listening, current_mode, video_recorder,
                   threads, files, cb, ncalls, nthreads>>

\* AudioRecorder.stop_recording after the flag is cleared (lines 170-179): the
\* join returns, because the capture thread ended or because 2 s passed, and
\* the buffer as it stands is saved (ok: the write succeeds).
StopRecording_AudioJoin(t) ==
    /\ pc[t] = "st_ajoin"
    /\ \E ok \in BOOLEAN :
          LET r == recs[CoordRec]
          IN /\ AudioSaves(r) \/ ok
             /\ files' = IF AudioSaves(r) THEN SaveWav(files, r, ok) ELSE files
             /\ loc' = [loc EXCEPT ![t].filepath = AudioStopReturn(r),
                                   ![t].fault = IF ok THEN "none" ELSE "save"]
    /\ Goto(t, "st_clear")
    /\ UNCHANGED <<Env, now, is_active, is_listening, current_mode, recs, video_recorder,
                   threads, cb, events, ncalls, nthreads>>

\* self._video_writer.release() raised (line 286): the exception leaves
\* VideoRecorder.stop_recording and SmartMirrorMemo.stop_recording at once.
VideoStop_Raise(t) ==
    /\ video_recorder' = [video_recorder EXCEPT !.is_recording = FALSE]
    /\ events' = Logged(events, "video", "stop", video_recorder.current_file)
    /\ Raise(t, [loc[t] EXCEPT !.fault = "release"])
    /\ recs' = recs

\* VideoRecorder.stop_recording from line 282 to the sidecar's join
\* (lines 282-291, 166-169), the writer released without error.
VideoStop_Release(t) ==
    LET id == video_recorder.audio_recorder
        vstop == Logged(events, "video", "stop", video_recorder.current_file)
        closed == [video_recorder EXCEPT !.is_recording = FALSE, !.video_writer = NoWriter]
    IN IF id = NoRec
       THEN /\ video_recorder' = closed
            /\ loc' = [loc EXCEPT ![t].filepath = video_recorder.current_file]
            /\ events' = vstop
            /\ Goto(t, "st_clear")
            /\ UNCHANGED <<recs>>
       ELSE IF ~recs[id].is_recording
       THEN /\ video_recorder' = [closed EXCEPT !.audio_recorder = NoRec]
            /\ loc' = [loc EXCEPT ![t].filepath = video_recorder.current_file]
            /\ events' = Logged(vstop, "sidecar", "stop", recs[id].current_file)
            /\ Goto(t, "st_clear")
            /\ recs' = Reclaim(recs, video_recorder', threads, loc')
       ELSE /\ video_recorder' = closed
            /\ recs' = [recs EXCEPT ![id].is_recording = FALSE]
            /\ loc' = [loc EXCEPT ![t].sidecar = id]
            /\ events' = Logged(vstop, "sidecar", "stop", recs[id].current_file)
            /\ Goto(t, "st_vjoin")

\* `elif self.current_mode == "video":` and VideoRecorder.stop_recording up to
\* the sidecar's join (lines 466-467, 279-291).
StopRecording_Video(t) ==
    /\ pc[t] = "st_video"
    /\ IF current_mode = "video"
       THEN IF ~video_recorder.is_recording
            THEN /\ loc' = [loc EXCEPT ![t].filepath = None]
                 /\ events' = Logged(events, "video", "stop", video_recorder.current_file)
                 /\ Goto(t, "st_clear")
                 /\ UNCHANGED <<recs, video_recorder>>
            ELSE \/ VideoStop_Release(t)
                 \/ video_recorder.video_writer.exists /\ VideoStop_Raise(t)
       ELSE /\ Goto(t, "st_clear")
            /\ UNCHANGED <<recs, video_recorder, loc, events>>
    /\ UNCHANGED <<Env, now, is_active, is_listening, current_mode,
                   threads, files, cb, ncalls, nthreads>>

\* The sidecar's join and save, then lines 292-295 of VideoRecorder.stop_recording.
StopRecording_VideoJoin(t) ==
    /\ pc[t] = "st_vjoin"
    /\ \E ok \in BOOLEAN :
          LET r == recs[loc[t].sidecar]
          IN /\ AudioSaves(r) \/ ok
             /\ files' = IF AudioSaves(r) THEN SaveWav(files, r, ok) ELSE files
             /\ loc' = [loc EXCEPT ![t].filepath = video_recorder.current_file,
                                   ![t].sidecar = NoRec,
                                   ![t].fault = IF ok THEN "none" ELSE "save"]
    /\ video_recorder' = [video_recorder EXCEPT !.audio_recorder = NoRec]
    /\ recs' = Reclaim(recs, video_recorder', threads, loc')
    /\ Goto(t, "st_clear")
    /\ UNCHANGED <<Env, now, is_active, is_listening, current_mode,
                   threads, cb, events, ncalls, nthreads>>

\* StopRecording_Clear with the assignment forgotten.
StopRecording_Clear_Skip(t) ==
    /\ pc[t] = "st_clear"
    /\ Goto(t, "st_cb")
    /\ UNCHANGED <<Env, now, is_active, is_listening, current_mode, recs, video_recorder,
                   threads, files, loc, cb, events, ncalls, nthreads>>

\* self.current_mode = None (line 469)
StopRecording_Clear(t) ==
    /\ pc[t] = "st_clear"
    /\ current_mode' = "None"
    /\ Goto(t, "st_cb")
    /\ UNCHANGED <<Env, now, is_active, is_listening, recs, video_recorder,
                   threads, files, loc, cb, events, ncalls, nthreads>>

\* on_recording_stop(mode, filepath); return filepath (lines 471-474)
StopRecording_Cb(t) ==
    /\ pc[t] = "st_cb"
    /\ cb' = OnRecordingStop(loc[t].mode, loc[t].filepath)
    /\ Return(t, loc[t], loc[t].filepath)
    /\ UNCHANGED <<Env, now, is_active, is_listening, current_mode, recs, video_recorder,
                   threads, files, events, ncalls, nthreads>>

\* ---------------------------------------------- AudioRecorder._record_loop
ThreadSet(th, label) == (threads \ {th}) \cup {[th EXCEPT !.pc = label]}

\* `while self.is_recording:` (line 193); the thread ends when it is false.
CaptureCheck(th) ==
    /\ th \in threads /\ th.pc = "check"
    /\ threads' = IF recs[th.rec].is_recording THEN ThreadSet(th, "read") ELSE threads \ {th}
    /\ recs' = Reclaim(recs, video_recorder, threads', loc)
    /\ UNCHANGED <<Env, now, is_active, is_listening, current_mode, video_recorder,
                   files, pc, loc, cb, events, ncalls, nthreads>>

\* stream.read then self._frames.append(data) (lines 194-195)
CaptureAppend(th) ==
    /\ th \in threads /\ th.pc = "read"
    /\ Len(recs[th.rec].frames) < MaxChunks \/ ~recs[th.rec].is_recording
    /\ recs' = [recs EXCEPT ![th.rec].frames = Append(@, th.sess)]
    /\ threads' = ThreadSet(th, "check")
    /\ UNCHANGED <<Env, now, is_active, is_listening, current_mode, video_recorder,
                   files, pc, loc, cb, events, ncalls, nthreads>>

\* An exception in the loop (lines 201-203): the flag is cleared, the thread ends.
CaptureDie(th) ==
    /\ th \in threads
    /\ threads' = threads \ {th}
    /\ recs' = Reclaim([recs EXCEPT ![th.rec].is_recording = FALSE],
                       video_recorder, threads', loc)
    /\ UNCHANGED <<Env, now, is_active, is_listening, current_mode, video_recorder,
                   files, pc, loc, cb, events, ncalls, nthreads>>

Capture ==
    \E th \in threads : CaptureCheck(th) \/ CaptureAppend(th) \/ CaptureDie(th)

\* ------------------------------------------------------------ environment
\* The thread object that threading.Thread(target=self._listen_loop) creates
\* (line 73).
NewListenThread == IF outer["listener"] = "off" THEN "listener" ELSE "listener2"

\* SmartMirrorMemo.start with VoiceRecognizer.start_listening (lines 399-403, 63-75)
Start(t) ==
    /\ pc[t] = "idle"
    /\ outer[t] = "none"
    /\ ~is_active
    /\ is_active' = TRUE
    /\ IF speech /\ ~is_listening
       THEN /\ \E l \in ListenThreads : outer[l] = "off"
            /\ is_listening' = TRUE
            /\ outer' = [outer EXCEPT ![NewListenThread] = "check"]
       ELSE UNCHANGED <<is_listening, outer>>
    /\ Return(t, Enter(t, "start"), None)
    /\ UNCHANGED <<pyaudio, speech, now, current_mode, recs, video_recorder,
                   threads, files, cb, events, ncalls, nthreads>>

Commands == {"voice_memo", "video_memo", "stop"}

\* VoiceRecognizer._listen_loop delivering a matched command to
\* SmartMirrorMemo._on_voice_command on the listener thread.
OnVoiceCommand(command) ==
    /\ is_listening
    /\ CASE command = "voice_memo" -> StartVoiceMemo_Check("listener")
         [] command = "video_memo" -> StartVideoMemo_Check("listener")
         [] command = "stop" -> StopRecording_Check("listener")

\* The call's result is consumed; the thread is free to call again.
Done(t) ==
    /\ pc[t] = "ret"
    /\ loc' = [loc EXCEPT ![t] = LocInit]
    /\ Goto(t, "idle")
    /\ UNCHANGED <<Env, now, is_active, is_listening, current_mode, recs, video_recorder,
                   threads, files, cb, events, ncalls, nthreads>>

\* What the caller thread may call.
CallerCall ==
    \/ StartVoiceMemo_Check("caller")
    \/ StartVideoMemo_Check("caller")
    \/ StopRecording_Check("caller")
    \/ WriteVideoFrame("caller")
    \/ Start("caller")

ListenerCall == \E command \in Commands : OnVoiceCommand(command)

\* The steps that continue a coordinator call already under way.
Continue(t) ==
    \/ StartVoiceMemo_Set(t)
    \/ StartVoiceMemo_Rec(t)
    \/ StartVoiceMemo_Cb(t)
    \/ StartVideoMemo_Set(t)
    \/ StartVideoMemo_Rec(t)
    \/ StartVideoMemo_Cb(t)
    \/ StopRecording_Mode(t)
    \/ StopRecording_Voice(t)
    \/ StopRecording_AudioJoin(t)
    \/ StopRecording_Video(t)
    \/ StopRecording_VideoJoin(t)
    \/ StopRecording_Clear(t)
    \/ StopRecording_Cb(t)
    \/ Done(t)

AllIdle == \A t \in Threads : pc[t] = "idle"

\* Calls made one after another, by the caller or through the voice listener:
\* a call begins only when no other is under way. The capture threads run
\* beside them.
NextSeq ==
    \/ AllIdle /\ CallerCall
    \/ AllIdle /\ ListenerCall
    \/ \E t \in Threads : Continue(t)
    \/ Capture

SpecSeq == Init /\ [][NextSeq]_vars

\* ------------------------------------------- the recorders called directly
\* A caller that holds the coordinator also holds its recorders
\* (memo.audio_recorder, memo.video_recorder) and may call their
\* start_recording itself, whatever the coordinator's mode.
AudioRecorder_Call(t) ==
    /\ pc[t] = "idle"
    /\ ncalls < MaxCalls
    /\ ncalls' = ncalls + 1
    /\ loc' = [loc EXCEPT ![t] = Enter(t, "AudioRecorder.start_recording")]
    /\ Goto(t, "ar_rec")
    /\ UNCHANGED <<Env, now, is_active, is_listening, current_mode, recs, video_recorder,
                   threads, files, cb, events, nthreads>>

\* AudioRecorder.start_recording (lines 142-162)
AudioRecorder_Rec(t) ==
    /\ pc[t] = "ar_rec"
    /\ AudioRecorder_StartRecording(t)
    /\ Goto(t, "rc_ret")
    /\ UNCHANGED <<Env, is_active, is_listening, current_mode, video_recorder,
                   files, cb, ncalls>>

VideoRecorder_Call(t) ==
    /\ pc[t] = "idle"
    /\ ncalls < MaxCalls
    /\ ncalls' = ncalls + 1
    /\ loc' = [loc EXCEPT ![t] = Enter(t, "VideoRecorder.start_recording")]
    /\ Goto(t, "vr_rec")
    /\ UNCHANGED <<Env, now, is_active, is_listening, current_mode, recs, video_recorder,
                   threads, files, cb, events, nthreads>>

\* VideoRecorder.start_recording (lines 236-267)
VideoRecorder_Rec(t) ==
    /\ pc[t] = "vr_rec"
    /\ VideoStartRecording(t)
    /\ Goto(t, "rc_ret")
    /\ UNCHANGED <<Env, is_active, is_listening, current_mode, cb, ncalls>>

\* `return self._current_file` (lines 150, 162, 240, 267) or `return None` (146)
Recorder_Ret(t) ==
    /\ pc[t] = "rc_ret"
    /\ Return(t, loc[t], loc[t].filepath)
    /\ UNCHANGED <<Env, now, is_active, is_listening, current_mode, recs, video_recorder,
                   threads, files, cb, events, ncalls, nthreads>>

RecorderCall == AudioRecorder_Call("caller") \/ VideoRecorder_Call("caller")

RecorderContinue ==
    \/ AudioRecorder_Rec("caller")
    \/ VideoRecorder_Rec("caller")
    \/ Recorder_Ret("caller")

\* What the caller asks of the coordinator between its direct recorder
\* calls: voice sessions.
SessionCall ==
    \/ StartVoiceMemo_Check("caller")
    \/ StopRecording_Check("caller")

\* The steps of those calls.
SessionContinue ==
    \/ StartVoiceMemo_Set("caller")
    \/ StartVoiceMemo_Rec("caller")
    \/ StartVoiceMemo_Cb("caller")
    \/ StopRecording_Mode("caller")
    \/ StopRecording_Voice("caller")
    \/ StopRecording_AudioJoin("caller")
    \/ StopRecording_Clear("caller")
    \/ StopRecording_Cb("caller")
    \/ Done("caller")

\* The caller's voice sessions and direct recorder calls, one after another,
\* with the capture threads running beside them.
NextRec ==
    \/ AllIdle /\ SessionCall
    \/ AllIdle /\ RecorderCall
    \/ SessionContinue
    \/ RecorderContinue
    \/ Capture

SpecRec == Init /\ [][NextRec]_vars

\* The caller thread and the listener thread calling concurrently.
Next ==
    \/ CallerCall
    \/ ListenerCall
    \/ \E t \in Threads : Continue(t)
    \/ Capture

Spec == Init /\ [][Next]_vars

\* ------------------------------------------------------------ MemoManager
\* A file name is the path without the directory: os.listdir gives names,
\* os.path.join (line 313) gives the path back.
Basename(p) == SubSeq(p, 3, Len(p))

\* `sub in s` for strings
Contains(s, sub) ==
    \E i \in 1..(Len(s) - Len(sub) + 1) : SubSeq(s, i, i + Len(sub) - 1) = sub

StartsWith(s, prefix) == Len(s) >= Len(prefix) /\ SubSeq(s, 1, Len(prefix)) = prefix

EndsWith(s, suffix) ==
    Len(s) >= Len(suffix) /\ SubSeq(s, Len(s) - Len(suffix) + 1, Len(s)) = suffix

SidecarSuffix == <<"_", "audio", ".wav">>

\* IsAudioTrack with the test of line 318 left out.
IsAudioTrack_Never(name) == FALSE

\* `"_audio.wav" in filename` (line 318)
IsAudioTrack(name) == Contains(name, SidecarSuffix)

\* The classification of lines 321-325.
MemoType(name) ==
    IF StartsWith(name, <<"voice", "_", "memo">>) /\ EndsWith(name, <<".wav">>) THEN "voice"
    ELSE IF StartsWith(name, <<"video", "_", "memo">>) /\ EndsWith(name, <<".mp4">>) THEN "video"
    ELSE "None"

\* str.split("_"): the pieces between the underscores.
RECURSIVE Split(_)
Split(s) ==
    IF \A i \in 1..Len(s) : s[i] # "_"
    THEN <<s>>
    ELSE LET i == CHOOSE k \in 1..Len(s) : s[k] = "_" /\ \A j \in 1..(k - 1) : s[j] # "_"
         IN <<SubSeq(s, 1, i - 1)>> \o Split(SubSeq(s, i + 1, Len(s)))

Extensions == {".wav", ".mp4", ".txt"}

\* piece.split(".")[0]: what stands before the first dot.
BeforeDot(piece) ==
    IF \A i \in 1..Len(piece) : piece[i] \notin Extensions
    THEN piece
    ELSE LET i == CHOOSE k \in 1..Len(piece) :
                      piece[k] \in Extensions /\ \A j \in 1..(k - 1) : piece[j] \notin Extensions
         IN SubSeq(piece, 1, i - 1)

\* The `try` of lines 329-331 goes through: the name has four pieces
\* (no IndexError) and strptime accepts the date and the time (no ValueError).
Parses(name) ==
    /\ Len(Split(name)) >= 4
    /\ Split(name)[3] = <<"20240101">>
    /\ \E n \in 1..Len(Seconds) : BeforeDot(Split(name)[4]) = <<Seconds[n]>>

\* datetime.strptime(timestamp_str, "%Y%m%d_%H%M%S"), as a clock value
Strptime(name) ==
    (CHOOSE n \in 1..Len(Seconds) : BeforeDot(Split(name)[4]) = <<Seconds[n]>>) - 1

\* The timestamp of lines 328-333: parsed from the name, else the file's mtime.
Timestamp(f) ==
    IF Parses(Basename(f.path)) THEN Strptime(Basename(f.path)) ELSE f.mtime

\* The record appended at lines 335-341.
MemoRecord(f) ==
    [filename |-> Basename(f.path), filepath |-> f.path,
     type |-> MemoType(Basename(f.path)), timestamp |-> Timestamp(f),
     size |-> Len(f.content)]

\* A file gets a record: it is no audio track and it has a memo type.
Listed(f) == ~IsAudioTrack(Basename(f.path)) /\ MemoType(Basename(f.path)) # "None"

\* The loop of lines 312-341 over the files in listdir order; every entry of
\* the directory is a regular file.
RECURSIVE Scan(_)
Scan(order) ==
    IF order = <<>> THEN <<>>
    ELSE (IF Listed(order[1]) THEN <<MemoRecord(order[1])>> ELSE <<>>)
             \o Scan(SubSeq(order, 2, Len(order)))

\* One record put into a list sorted newest first, behind its equals.
RECURSIVE Insert(_, _)
Insert(m, sorted) ==
    IF sorted = <<>> THEN <<m>>
    ELSE IF sorted[1].timestamp >= m.timestamp
         THEN <<sorted[1]>> \o Insert(m, SubSeq(sorted, 2, Len(sorted)))
         ELSE <<m>> \o sorted

\* SortNewestFirst with the sort left out.
SortNewestFirst_Unsorted(memos) == memos

\* memos.sort(key=lambda x: x["timestamp"], reverse=True) (line 344): stable.
RECURSIVE SortNewestFirst(_)
SortNewestFirst(memos) ==
    IF memos = <<>> THEN <<>>
    ELSE Insert(memos[Len(memos)], SortNewestFirst(SubSeq(memos, 1, Len(memos) - 1)))

\* MemoManager.get_all_memos with os.listdir answering in `order`.
GetAllMemos(order) == SortNewestFirst(Scan(order))

\* The orders os.listdir may answer in for directory fs.
ListDir(fs) ==
    {order \in [1..Cardinality(fs) -> fs] : \A f \in fs : \E i \in DOMAIN order : order[i] = f}

\* os.remove(p)
Remove(fs, p) == {f \in fs : f.path # p}

\* `audio_path = filepath.replace('.mp4', '_audio.wav')` (line 354)
AudioPath(p) == Replace(p, ".mp4", SidecarSuffix)

\* DeleteMemo without lines 353-356: the audio track stays.
DeleteMemo_TargetOnly(fs, p, fault) ==
    IF ~(\E f \in fs : f.path = p) \/ fault = "remove" THEN fs ELSE Remove(fs, p)

\* MemoManager.delete_memo (lines 347-362) on directory fs; `fault` names the
\* os.remove that raises, if one does: "remove" (line 351), "remove_sidecar"
\* (line 356) or "none".
DeleteMemo(fs, p, fault) ==
    IF ~(\E f \in fs : f.path = p) \/ fault = "remove" THEN fs
    ELSE IF fault = "remove_sidecar" THEN Remove(fs, p)
    ELSE Remove(Remove(fs, p), AudioPath(p))

\* What delete_memo returns: True at line 359, False at line 362.
DeleteMemoReturn(fs, p, fault) == (\E f \in fs : f.path = p) /\ fault = "none"

\* The os.remove that `fault` names is really called on directory fs.
FaultPossible(fs, p, fault) ==
    \/ fault = "none"
    \/ fault = "remove" /\ \E f \in fs : f.path = p
    \/ /\ fault = "remove_sidecar"
       /\ \E f \in fs : f.path = p
       /\ \E f \in Remove(fs, p) : f.path = AudioPath(p)

\* ------------------------------------------------------- VoiceRecognizer
\* COMMANDS (lines 38-42), in the dict's order. The Korean keywords are
\* written in Latin letters.
CommandOrder == <<"voice_memo", "video_memo", "stop">>

Keywords ==
    [voice_memo |-> {"eumseong memo", "eumseong nogeum", "boiseu memo", "voice memo"},
     video_memo |-> {"yeongsang memo", "yeongsang nokhwa", "bidio memo", "bidio nokhwa",
                     "video memo"},
     stop |-> {"jungji", "seutap", "geuman", "stop", "kkeut"}]

\* str.lower() on a phrase
Lower(phrase) ==
    CASE phrase = "Voice Memo" -> "voice memo"
      [] phrase = "VIDEO MEMO" -> "video memo"
      [] phrase = "Stop" -> "stop"
      [] OTHER -> phrase

\* text.lower(): a text is the sequence of its phrases.
LowerText(text) == [i \in DOMAIN text |-> Lower(text[i])]

\* `keyword in text_lower`
KeywordIn(keyword, text) == \E i \in DOMAIN text : text[i] = keyword

\* The first command of `order` one of whose keywords `text` holds.
RECURSIVE FirstMatch(_, _)
FirstMatch(order, text) ==
    IF order = <<>> THEN "None"
    ELSE IF \E keyword \in Keywords[order[1]] : KeywordIn(keyword, text) THEN order[1]
    ELSE FirstMatch(SubSeq(order, 2, Len(order)), text)

\* MatchCommand testing the stop keywords first.
MatchCommand_StopFirst(text) ==
    FirstMatch(<<"stop", "voice_memo", "video_memo">>, LowerText(text))

\* VoiceRecognizer._match_command (lines 113-120)
MatchCommand(text) == FirstMatch(CommandOrder, LowerText(text))

\* ------------------------------------ the catalog and the matcher at work
\* The names a storage directory is filled from: memos of both kinds, a
\* sidecar, a voice memo's name with the sidecar suffix, names whose timestamp
\* does not parse, a foreign file.
DirNames ==
    {Basename(VoicePath(0)), Basename(VoicePath(1)),
     Basename(VideoPath(0)), Basename(VideoPath(1)),
     Basename(SidecarPath(VideoPath(0))),
     Basename(Replace(VoicePath(0), ".wav", SidecarSuffix)),
     <<"voice", "_", "memo", "_", "note", ".wav">>,
     <<"video", "_", "memo", "_", "20240101", "_", "late", ".mp4">>,
     <<"notes", ".txt">>}

DirPaths == {PathJoin(SaveDir, name) : name \in DirNames}

\* The directory that holds the files named `names`, last modified at `mtime`.
Directory(names, mtime) ==
    {[path |-> PathJoin(SaveDir, name), content |-> <<>>, mtime |-> mtime[name]] :
        name \in names}

\* The phrases a recognized text is made of.
Phrases == {"voice memo", "Voice Memo", "VIDEO MEMO", "bidio nokhwa", "Stop", "kkeut", "hello"}

Texts == UNION {[1..n -> Phrases] : n \in 0..MaxText}

\* The coordinator at rest over a directory that holds files already.
InitCat ==
    /\ pyaudio = TRUE
    /\ speech = TRUE
    /\ outer = OuterInit
    /\ now = 0
    /\ is_active = FALSE
    /\ is_listening = FALSE
    /\ current_mode = "None"
    /\ recs = <<AudioRecorderInit>>
    /\ video_recorder = VideoRecorderInit
    /\ threads = {}
    /\ \E names \in {ns \in SUBSET DirNames : Cardinality(ns) <= MaxDir} :
          \E mtime \in [names -> 0..MaxClock] : files = Directory(names, mtime)
    /\ pc = [t \in Threads |-> "idle"]
    /\ loc = [t \in Threads |-> LocInit]
    /\ cb = <<>>
    /\ events = {}
    /\ ncalls = 0
    /\ nthreads = 0

\* SmartMirrorMemo.get_memos -> MemoManager.get_all_memos
GetMemos(t) ==
    /\ pc[t] = "idle"
    /\ \E order \in ListDir(files) :
          loc' = [loc EXCEPT ![t] = [LocInit EXCEPT !.op = "get_all_memos",
                                                    !.ret = GetAllMemos(order),
                                                    !.status = "returned"]]
    /\ Goto(t, "ret")
    /\ UNCHANGED <<Env, now, is_active, is_listening, current_mode, recs, video_recorder,
                   threads, files, cb, events, ncalls, nthreads>>

\* SmartMirrorMemo.delete_memo -> MemoManager.delete_memo
DeleteMemoCall(t) ==
    /\ pc[t] = "idle"
    /\ \E p \in DirPaths, fault \in {"none", "remove", "remove_sidecar"} :
          /\ FaultPossible(files, p, fault)
          /\ files' = DeleteMemo(files, p, fault)
          /\ loc' = [loc EXCEPT ![t] = [LocInit EXCEPT !.op = "delete_memo", !.arg = p,
                                                       !.fault = fault,
                                                       !.ret = DeleteMemoReturn(files, p, fault),
                                                       !.status = "returned"]]
    /\ Goto(t, "ret")
    /\ UNCHANGED <<Env, now, is_active, is_listening, current_mode, recs, video_recorder,
                   threads, cb, events, ncalls, nthreads>>

\* VoiceRecognizer._listen_loop: command = self._match_command(text) (line 98)
MatchCommandCall(t) ==
    /\ pc[t] = "idle"
    /\ \E text \in Texts :
          loc' = [loc EXCEPT ![t] = [LocInit EXCEPT !.op = "_match_command", !.arg = text,
                                                    !.ret = MatchCommand(text),
                                                    !.status = "returned"]]
    /\ Goto(t, "ret")
    /\ UNCHANGED <<Env, now, is_active, is_listening, current_mode, recs, video_recorder,
                   threads, files, cb, events, ncalls, nthreads>>

\* The caller listing and deleting memos.
NextCat ==
    \/ GetMemos("caller")
    \/ DeleteMemoCall("caller")
    \/ Done("caller")

SpecCat == InitCat /\ [][NextCat]_vars

\* The listener thread matching one recognized text after another.
NextMatch ==
    \/ MatchCommandCall("listener")
    \/ Done("listener")

SpecMatch == Init /\ [][NextMatch]_vars

\* ------------------------------- the catalog read while a memo is deleted
\* get_all_memos up to os.listdir (lines 307-312): the names as the directory
\* holds them now, in the order listdir answers; no record yet.
GetAllMemos_ListDir(t) ==
    /\ pc[t] = "idle"
    /\ \E order \in ListDir(files) :
          loc' = [loc EXCEPT ![t] = [LocInit EXCEPT !.op = "get_all_memos",
                                                    !.arg = [i \in DOMAIN order |-> order[i].path],
                                                    !.status = "running"]]
    /\ Goto(t, "gm_isfile")
    /\ UNCHANGED <<Env, now, is_active, is_listening, current_mode, recs, video_recorder,
                   threads, files, cb, events, ncalls, nthreads>>

\* The file the scan stands at, as the directory holds it now.
Scanned(t) == CHOOSE f \in files : f.path = loc[t].arg[1]

\* One turn of the loop up to `if memo_type:` (lines 312-327):
\* os.path.isfile answers False for a name that is gone, and a name that is
\* an audio track or no memo is passed over.
GetAllMemos_IsFile(t) ==
    /\ pc[t] = "gm_isfile"
    /\ loc[t].arg # <<>>
    /\ IF FileExists(loc[t].arg[1]) /\ Listed(Scanned(t))
       THEN /\ Goto(t, "gm_stat")
            /\ loc' = loc
       ELSE /\ Goto(t, "gm_isfile")
            /\ loc' = [loc EXCEPT ![t].arg = Tail(@)]
    /\ UNCHANGED <<Env, now, is_active, is_listening, current_mode, recs, video_recorder,
                   threads, files, cb, events, ncalls, nthreads>>

\* The rest of the turn (lines 328-341): the timestamp, from the name or from
\* os.path.getmtime, and os.path.getsize. Both raise FileNotFoundError for a
\* file that is gone; nothing in get_all_memos catches it.
GetAllMemos_Stat(t) ==
    /\ pc[t] = "gm_stat"
    /\ IF FileExists(loc[t].arg[1])
       THEN /\ loc' = [loc EXCEPT ![t].arg = Tail(@),
                                  ![t].ret = Append(@, MemoRecord(Scanned(t)))]
            /\ Goto(t, "gm_isfile")
       ELSE Raise(t, [loc[t] EXCEPT !.fault = "stat"])
    /\ UNCHANGED <<Env, now, is_active, is_listening, current_mode, recs, video_recorder,
                   threads, files, cb, events, ncalls, nthreads>>

\* memos.sort(...); return memos (lines 344-345)
GetAllMemos_Sort(t) ==
    /\ pc[t] = "gm_isfile"
    /\ loc[t].arg = <<>>
    /\ Return(t, loc[t], SortNewestFirst(loc[t].ret))
    /\ UNCHANGED <<Env, now, is_active, is_listening, current_mode, recs, video_recorder,
                   threads, files, cb, events, ncalls, nthreads>>

\* The caller lists the memos (memo_demo.py line 174) while the player
\* window's thread (memo_demo.py line 161) deletes some
\* (memo_player_ui.py line 369).
NextCatRace ==
    \/ GetAllMemos_ListDir("caller")
    \/ GetAllMemos_IsFile("caller")
    \/ GetAllMemos_Stat("caller")
    \/ GetAllMemos_Sort("caller")
    \/ DeleteMemoCall("player")
    \/ Done("caller")
    \/ Done("player")

SpecCatRace == InitCat /\ [][NextCatRace]_vars

\* ------------------------------------ the voice listener and the shutdown
\* SmartMirrorMemo._on_voice_command(command) entered by thread t
\* (lines 416-421).
VoiceCommand(t, command) ==
    CASE command = "voice_memo" -> StartVoiceMemo_Check(t)
      [] command = "video_memo" -> StartVideoMemo_Check(t)
      [] command = "stop" -> StopRecording_Check(t)

\* `while self.is_listening:` (line 86); the thread ends when it is false.
Listen_Check(t) ==
    /\ outer[t] = "check"
    /\ outer' = [outer EXCEPT ![t] = IF is_listening THEN "listen" ELSE "off"]
    /\ UNCHANGED <<pyaudio, speech, now, is_active, is_listening, current_mode, recs,
                   video_recorder, threads, files, pc, loc, cb, events, ncalls, nthreads>>

\* recognizer.listen(source, timeout=3, phrase_time_limit=5) (lines 88-90): it
\* returns audio, or raises WaitTimeoutError (line 107, back to the loop test),
\* or the microphone raises something else (lines 109-111).
Listen_Listen(t) ==
    /\ outer[t] = "listen"
    /\ \E outcome \in {"recognize", "check", "sleep"} :
          outer' = [outer EXCEPT ![t] = outcome]
    /\ UNCHANGED <<pyaudio, speech, now, is_active, is_listening, current_mode, recs,
                   video_recorder, threads, files, pc, loc, cb, events, ncalls, nthreads>>

\* recognize_google(audio), _match_command(text) and the test of line 99
\* (lines 94-99, 102-105): the text holds a command, which the callback is
\* about to get, or holds none, or UnknownValueError is raised and passed
\* over, or RequestError is raised.
Listen_Recognize(t) ==
    /\ outer[t] = "recognize"
    /\ \/ \E phrase \in Phrases :
             LET command == MatchCommand(<<phrase>>)
             IN outer' = [outer EXCEPT ![t] = IF command = "None" THEN "check" ELSE command]
       \/ outer' = [outer EXCEPT ![t] = "check"]
       \/ outer' = [outer EXCEPT ![t] = "request_error"]
    /\ UNCHANGED <<pyaudio, speech, now, is_active, is_listening, current_mode, recs,
                   video_recorder, threads, files, pc, loc, cb, events, ncalls, nthreads>>

\* self.callback(command) (line 100): the listen thread enters the
\* coordinator's method.
Listen_Callback(t) ==
    /\ outer[t] \in Commands
    /\ VoiceCommand(t, outer[t])

\* The callback is over (lines 100, 109-111): back to the loop test, through
\* the `except Exception` and its sleep when the callback raised.
Listen_CallbackReturn(t) ==
    /\ outer[t] \in Commands
    /\ pc[t] = "ret"
    /\ outer' = [outer EXCEPT ![t] = IF loc[t].status = "raised" THEN "sleep" ELSE "check"]
    /\ loc' = [loc EXCEPT ![t] = LocInit]
    /\ Goto(t, "idle")
    /\ UNCHANGED <<pyaudio, speech, now, is_active, is_listening, current_mode, recs,
                   video_recorder, threads, files, cb, events, ncalls, nthreads>>

\* `except sr.RequestError as e: print(...)` (lines 104-105): the error is
\* printed and the loop test comes next.
Listen_RequestError(t) ==
    /\ outer[t] = "request_error"
    /\ outer' = [outer EXCEPT ![t] = "check"]
    /\ UNCHANGED <<pyaudio, speech, now, is_active, is_listening, current_mode, recs,
                   video_recorder, threads, files, pc, loc, cb, events, ncalls, nthreads>>

\* time.sleep(0.5) is over (line 111)
Listen_Sleep(t) ==
    /\ outer[t] = "sleep"
    /\ outer' = [outer EXCEPT ![t] = "check"]
    /\ UNCHANGED <<pyaudio, speech, now, is_active, is_listening, current_mode, recs,
                   video_recorder, threads, files, pc, loc, cb, events, ncalls, nthreads>>

ListenLoop(t) ==
    \/ Listen_Check(t)
    \/ Listen_Listen(t)
    \/ Listen_Recognize(t)
    \/ Listen_RequestError(t)
    \/ Listen_Sleep(t)
    \/ Listen_CallbackReturn(t)

\* SmartMirrorMemo.stop, `self.is_active = False` (line 407); stop_recording
\* is called next.
Stop(t) ==
    /\ pc[t] = "idle"
    /\ outer[t] = "none"
    /\ ncalls < MaxCalls
    /\ is_active' = FALSE
    /\ outer' = [outer EXCEPT ![t] = "stopping"]
    /\ UNCHANGED <<pyaudio, speech, now, is_listening, current_mode, recs,
                   video_recorder, threads, files, pc, loc, cb, events, ncalls, nthreads>>

\* `self.stop_recording()` of line 408, called from within stop.
Stop_Recording(t) ==
    /\ outer[t] = "stopping"
    /\ StopRecording_Check(t)

\* SmartMirrorMemo.stop once stop_recording is over (lines 408-410, 79-82):
\* an exception of stop_recording leaves stop at once; otherwise
\* stop_listening clears is_listening and joins the listen thread for at most
\* 2 s, then stop returns, whether or not the thread has ended.
Stop_Listening(t) ==
    /\ outer[t] = "stopping"
    /\ pc[t] = "ret"
    /\ IF loc[t].status = "raised"
       THEN /\ Raise(t, [LocInit EXCEPT !.op = "stop", !.fault = loc[t].fault])
            /\ UNCHANGED is_listening
       ELSE /\ Return(t, [LocInit EXCEPT !.op = "stop"], None)
            /\ is_listening' = FALSE
    /\ outer' = [outer EXCEPT ![t] = "none"]
    /\ UNCHANGED <<pyaudio, speech, now, is_active, current_mode, recs,
                   video_recorder, threads, files, cb, events, ncalls, nthreads>>

\* No coordinator method is being executed by any thread.
NoCall == \A t \in Threads : pc[t] \in {"idle", "ret"}

\* The application starts and stops the system from the caller thread while
\* the listen threads run their loops and call the coordinator on a
\* recognized command; a coordinator method is entered only when no other is
\* being executed, and a command is delivered only while fewer than
\* MaxCommands coordinator calls have been made. Done hands a result to a
\* thread that runs nothing around the call.
NextListen ==
    \/ Start("caller")
    \/ Stop("caller")
    \/ NoCall /\ Stop_Recording("caller")
    \/ Stop_Listening("caller")
    \/ \E t \in ListenThreads : ListenLoop(t)
    \/ \E t \in ListenThreads : NoCall /\ ncalls < MaxCommands /\ Listen_Callback(t)
    \/ \E t \in Threads : (outer[t] = "none" \/ pc[t] # "ret") /\ Continue(t)
    \/ Capture

SpecListen == InitListen /\ [][NextListen]_vars

\* ================================================================ claims
Last(q) == q[Len(q)]

\* Thread t has just been handed the result of a call of `name`.
Returned(t, name) == pc[t] = "ret" /\ loc[t].op = name

\* Thread t enters a call of `name` in this step.
Calls(t, name) == pc[t] = "idle" /\ pc'[t] # "idle" /\ loc'[t].op = name

\* What a coordinator call may not touch when it is a no-op.
Session == <<current_mode, recs, video_recorder, threads, files, cb, events, now>>

\* C1: with calls made one after another, the coordinator's AudioRecorder and
\* its VideoRecorder are never both recording, and is_recording() is true
\* exactly when current_mode is "voice" or "video".
C1_MutualExclusion ==
    /\ ~(recs[CoordRec].is_recording /\ video_recorder.is_recording)
    /\ IsRecording <=> current_mode \in {"voice", "video"}

\* A video start was refused while the voice session is recording.
C1_Witness ==
    /\ recs[CoordRec].is_recording
    /\ current_mode = "voice"
    /\ \E t \in Threads : Returned(t, "start_video_memo") /\ loc[t].entry_mode = "voice"

\* C2: when the caller and the listener thread call concurrently, no
\* interleaving reaches a state where both recorders are recording, or where a
\* recorder is recording while current_mode is None.
C2_Linearizable ==
    /\ ~(recs[CoordRec].is_recording /\ video_recorder.is_recording)
    /\ current_mode = "None" =>
          ~recs[CoordRec].is_recording /\ ~video_recorder.is_recording

\* C3: start_voice_memo called when idle with the audio backend unavailable
\* returns None, leaves current_mode None and is_recording() false, and fires
\* no on_recording_start.
C3_FailedStartStaysIdle ==
    \A t \in Threads :
        (Returned(t, "start_voice_memo") /\ loc[t].entry_mode = "None" /\ ~pyaudio)
            => /\ loc[t].ret = None
               /\ current_mode = "None"
               /\ ~IsRecording
               /\ \A i \in DOMAIN cb : cb[i].kind # "start"

\* C4: a start request made while current_mode is "voice" or "video", by the
\* caller or through a voice command, returns at once and changes neither the
\* mode, nor any recorder (path, flag, thread), nor the files, nor the callbacks.
C4_StartWhileRecordingIsNoOp ==
    [][\A t \in Threads :
          ((Calls(t, "start_voice_memo") \/ Calls(t, "start_video_memo"))
              /\ current_mode \in {"voice", "video"})
          => /\ pc'[t] = "ret"
             /\ loc'[t].ret = None
             /\ UNCHANGED Session]_vars

\* A spoken start was refused while the video session is recording.
C4_Witness ==
    /\ video_recorder.is_recording
    /\ current_mode = "video"
    /\ Returned("listener", "start_voice_memo")
    /\ loc["listener"].entry_mode = "video"
    /\ cb = <<[kind |-> "start", mode |-> "video", path |-> None]>>

\* C5: stop_recording called when current_mode is None returns None, fires no
\* on_recording_stop and leaves the coordinator and both recorders unchanged.
C5_StopWhenIdleIsNoOp ==
    [][\A t \in Threads :
          (Calls(t, "stop_recording") /\ current_mode = "None")
          => /\ pc'[t] = "ret"
             /\ loc'[t].ret = None
             /\ loc'[t].status = "returned"
             /\ UNCHANGED Session]_vars

\* The second of two stops in a row: the session's stop callback has fired,
\* and a further stop has returned from the idle state.
C5_Witness ==
    /\ cb # <<>>
    /\ Last(cb).kind = "stop"
    /\ \E t \in Threads : Returned(t, "stop_recording") /\ loc[t].entry_mode = "None"

StopsFired == {i \in DOMAIN cb : cb[i].kind = "stop"}

\* C6: when stop_recording, called with current_mode "voice" or "video",
\* returns, current_mode is None and on_recording_stop has fired exactly once,
\* with the mode that was current at the call and the path being returned.
C6_StopReturnsToIdle ==
    \A t \in Threads :
        (Returned(t, "stop_recording") /\ loc[t].status = "returned"
            /\ loc[t].entry_mode \in {"voice", "video"})
        => /\ current_mode = "None"
           /\ Cardinality(StopsFired) = 1
           /\ Last(cb) = [kind |-> "stop", mode |-> loc[t].entry_mode, path |-> loc[t].ret]

\* A voice session that captured nothing is stopped: no file, and idle again.
C6_Witness ==
    /\ pyaudio
    /\ \E t \in Threads :
          /\ Returned(t, "stop_recording")
          /\ loc[t].entry_mode = "voice"
          /\ loc[t].ret = None
    /\ \E e \in events : e.obj = "audio" /\ e.op = "start" /\ e.path # None

\* C7: write_video_frame changes a file only if current_mode is "video" and
\* the VideoRecorder is recording; when current_mode is None or "voice" the
\* call returns normally and changes nothing: no file, no writer.
C7_FrameDroppedUnlessVideo ==
    [][\A t \in Threads :
          Calls(t, "write_video_frame")
          => /\ files' # files => (current_mode = "video" /\ video_recorder.is_recording)
             /\ current_mode \in {"None", "voice"} =>
                   (loc'[t].status = "returned" /\ UNCHANGED Session)]_vars

\* A frame arrives during a voice session that is recording.
C7_Witness ==
    /\ current_mode = "voice"
    /\ recs[CoordRec].is_recording
    /\ Returned("caller", "write_video_frame")
    /\ loc["caller"].ret = <<"dropped">>

\* C8: the sidecar AudioRecorder of a video session records to the path
\* derived from the video path (the video file's stem followed by "_audio.wav").
C8_SidecarRecordsToDerivedPath ==
    LET id == video_recorder.audio_recorder
    IN (video_recorder.is_recording /\ id # NoRec /\ recs[id].is_recording)
          => recs[id].current_file = SidecarPath(video_recorder.current_file)

\* The recorder calls of the session, by recorder and operation.
CallsOn(obj, op) == {e \in events : e.obj = obj /\ e.op = op}

\* C9: after start_video_memo when idle and then stop_recording, with the
\* audio backend available, the VideoRecorder and the sidecar were each started
\* once and stopped once, the VideoRecorder on the video path and the sidecar
\* on the sidecar path.
C9_EachStartedAndStoppedOnce ==
    \A t \in Threads :
        (Returned(t, "stop_recording") /\ loc[t].status = "returned"
            /\ loc[t].entry_mode = "video" /\ pyaudio /\ loc[t].ret # None)
        => /\ \A op \in {"start", "stop"} :
                 /\ CallsOn("video", op) =
                       {[obj |-> "video", op |-> op, path |-> loc[t].ret, k |-> 1]}
                 /\ CallsOn("sidecar", op) =
                       {[obj |-> "sidecar", op |-> op, path |-> SidecarPath(loc[t].ret),
                         k |-> 1]}

\* C10: once VideoRecorder.stop_recording has run on a recording VideoRecorder,
\* whether or not the writer closed, the stop_recording of the sidecar it
\* started has been called and no capture thread is still recording for a
\* sidecar.
C10_SidecarAlwaysStopped ==
    \A t \in Threads :
        (Returned(t, "stop_recording") /\ loc[t].entry_mode = "video"
            /\ Cardinality(CallsOn("video", "start")) = 1
            /\ Cardinality(CallsOn("video", "stop")) = 1)
        => /\ CallsOn("sidecar", "start") # {} => CallsOn("sidecar", "stop") # {}
           /\ \A th \in threads : th.rec # CoordRec => ~recs[th.rec].is_recording

\* C11: an accepted start never targets a file that an earlier session wrote,
\* even when the clock shows the same second as at the earlier start: the
\* path the AudioRecorder takes, and the path of the video file and of the
\* sidecar a VideoRecorder takes, are not in the directory when they are taken.
C11_NoPathReuse ==
    [][/\ (~recs[CoordRec].is_recording /\ recs'[CoordRec].is_recording)
            => ~FileExists(recs'[CoordRec].current_file)
       /\ (~video_recorder.is_recording /\ video_recorder'.is_recording)
            => /\ ~FileExists(video_recorder'.current_file)
               /\ ~FileExists(SidecarPath(video_recorder'.current_file))]_vars

Recorders == <<recs, video_recorder, threads, nthreads, files, now>>

\* C13: start_recording called on an AudioRecorder or a VideoRecorder that is
\* recording hands back the path in progress and changes no recorder, thread,
\* writer or file; and the call returns what it was handed.
C13_StartRecordingIdempotent ==
    [][\A t \in Threads :
          /\ (pc[t] = "ar_rec" /\ pc'[t] # "ar_rec" /\ recs[CoordRec].is_recording)
                => /\ loc'[t].filepath = recs[CoordRec].current_file
                   /\ UNCHANGED Recorders
          /\ (pc[t] = "vr_rec" /\ pc'[t] # "vr_rec" /\ video_recorder.is_recording)
                => /\ loc'[t].filepath = video_recorder.current_file
                   /\ UNCHANGED Recorders
          /\ (pc[t] = "rc_ret" /\ pc'[t] # "rc_ret")
                => loc'[t].ret = loc[t].filepath /\ loc'[t].status = "returned"]_vars

\* A second start_recording on the recording AudioRecorder has returned its
\* path, with a captured chunk still in the buffer.
C13_Witness ==
    /\ Returned("caller", "AudioRecorder.start_recording")
    /\ loc["caller"].entry_audio
    /\ recs[CoordRec].is_recording
    /\ recs[CoordRec].frames # <<>>
    /\ loc["caller"].ret = recs[CoordRec].current_file

\* C14: a listing never holds a record for a file whose name ends in
\* "_audio.wav"; and where a video memo and its sidecar are both in the
\* directory, the two of them give exactly one record: the video's, of type
\* video, with the timestamp parsed from its name.
C14_SidecarNeverListed ==
    \A t \in Threads :
        Returned(t, "get_all_memos")
        => LET memos == loc[t].ret
           IN /\ \A i \in DOMAIN memos : ~EndsWith(memos[i].filename, SidecarSuffix)
              /\ \A n \in 0..MaxClock :
                    (FileExists(VideoPath(n)) /\ FileExists(SidecarPath(VideoPath(n))))
                    => LET hits == {i \in DOMAIN memos :
                                       memos[i].filepath \in
                                           {VideoPath(n), SidecarPath(VideoPath(n))}}
                       IN /\ Cardinality(hits) = 1
                          /\ \A i \in hits : /\ memos[i].filepath = VideoPath(n)
                                             /\ memos[i].type = "video"
                                             /\ memos[i].timestamp = n

\* A directory with a video memo, its sidecar and a voice-named file with the
\* sidecar suffix has been listed: one record.
C14_Witness ==
    /\ Returned("caller", "get_all_memos")
    /\ FileExists(VideoPath(0))
    /\ FileExists(SidecarPath(VideoPath(0)))
    /\ FileExists(Replace(VoicePath(0), ".wav", SidecarSuffix))
    /\ Len(loc["caller"].ret) = 1

\* C15: after the first session of a run, a video session with the audio
\* backend available whose audio capture was saved, the listing holds exactly
\* one record, the video's: the session's audio file is not listed.
C15_VideoSessionOneRecord ==
    \A t \in Threads :
        (Returned(t, "stop_recording") /\ loc[t].status = "returned"
            /\ loc[t].entry_mode = "video" /\ pyaudio /\ ncalls = 2
            /\ loc[t].fault = "none"
            /\ \E f \in files : f.path # loc[t].ret /\ Len(f.content) >= 1)
        => \A order \in ListDir(files) :
              /\ Len(GetAllMemos(order)) = 1
              /\ GetAllMemos(order)[1].type = "video"
              /\ GetAllMemos(order)[1].filepath = loc[t].ret

\* C16: delete_memo on a video memo in the directory removes it and its
\* "_audio.wav" sidecar and returns True; on a voice memo in the directory it
\* removes that file alone and returns True; on a path not in the directory,
\* or when a removal fails, it returns False without raising and removes no
\* file other than the one named.
C16_DeleteMemo ==
    [][\A t \in Threads :
          Calls(t, "delete_memo")
          => LET p == loc'[t].arg
                 fine == FileExists(p) /\ loc'[t].fault = "none"
             IN /\ loc'[t].status = "returned"
                /\ (fine /\ MemoType(Basename(p)) = "video")
                      => /\ loc'[t].ret = TRUE
                         /\ files' = {f \in files : f.path \notin {p, SidecarPath(p)}}
                /\ (fine /\ MemoType(Basename(p)) = "voice")
                      => /\ loc'[t].ret = TRUE
                         /\ files' = {f \in files : f.path # p}
                /\ ~fine
                      => /\ loc'[t].ret = FALSE
                         /\ \A f \in files : f.path # p => f \in files']_vars

\* A video memo was deleted with its sidecar, and another file is left.
C16_Witness ==
    /\ Returned("caller", "delete_memo")
    /\ loc["caller"].ret = TRUE
    /\ loc["caller"].arg = VideoPath(0)
    /\ ~FileExists(VideoPath(0))
    /\ ~FileExists(SidecarPath(VideoPath(0)))
    /\ Cardinality(files) = MaxDir - 2

\* C17: in a listing every record's timestamp is at least that of the record
\* after it, a record's timestamp being the one its file name parses to or,
\* when the name does not parse, the file's modification time.
C17_NewestFirst ==
    \A t \in Threads :
        Returned(t, "get_all_memos")
        => LET memos == loc[t].ret
           IN /\ \A i \in 1..(Len(memos) - 1) : memos[i].timestamp >= memos[i + 1].timestamp
              /\ \A i \in DOMAIN memos :
                    \E f \in files :
                       /\ f.path = memos[i].filepath
                       /\ memos[i].timestamp =
                             IF Parses(memos[i].filename)
                             THEN Strptime(memos[i].filename)
                             ELSE f.mtime

\* Three records listed, the newest a file whose name does not parse and
\* whose modification time decides.
C17_Witness ==
    /\ Returned("caller", "get_all_memos")
    /\ Len(loc["caller"].ret) = 3
    /\ ~Parses(loc["caller"].ret[1].filename)
    /\ loc["caller"].ret[1].timestamp > loc["caller"].ret[3].timestamp

\* C18: _match_command answers voice_memo when the text holds a voice-memo
\* keyword, else video_memo when it holds a video-memo keyword, else stop when
\* it holds a stop keyword, else None: the text alone decides.
C18_MatchPriority ==
    \A t \in Threads :
        Returned(t, "_match_command")
        => LET text == LowerText(loc[t].arg)
               Has(cmd) == \E i \in DOMAIN text : text[i] \in Keywords[cmd]
           IN loc[t].ret = IF Has("voice_memo") THEN "voice_memo"
                           ELSE IF Has("video_memo") THEN "video_memo"
                           ELSE IF Has("stop") THEN "stop"
                           ELSE "None"

\* A stop keyword, then a video keyword, then a voice keyword: voice_memo.
C18_Witness ==
    /\ Returned("listener", "_match_command")
    /\ loc["listener"].arg = <<"kkeut", "VIDEO MEMO", "Voice Memo">>
    /\ loc["listener"].ret = "voice_memo"

\* C19: once a voice session's stop_recording has returned, with the write
\* meeting no error, every chunk in the capture buffer, one appended after the
\* join timed out included, is in the file at the session path.
C19_LateChunkSaved ==
    \A t \in Threads :
        (Returned(t, "stop_recording") /\ loc[t].status = "returned"
            /\ loc[t].entry_mode = "voice" /\ loc[t].entry_audio
            /\ loc[t].fault = "none" /\ loc[t].ret # None)
        => /\ FileExists(loc[t].ret)
           /\ FileContent(loc[t].ret) = recs[CoordRec].frames

\* C20: stop_recording called in a voice session whose capture loop has died
\* (the backend is there, yet the recorder is not recording) returns, without
\* raising, None; current_mode is None and on_recording_stop has fired once,
\* with "voice" and None.
C20_StopAfterCaptureDied ==
    \A t \in Threads :
        (Returned(t, "stop_recording") /\ loc[t].entry_mode = "voice"
            /\ pyaudio /\ ~loc[t].entry_audio)
        => /\ loc[t].status = "returned"
           /\ loc[t].ret = None
           /\ current_mode = "None"
           /\ Cardinality(StopsFired) = 1
           /\ Last(cb) = [kind |-> "stop", mode |-> "voice", path |-> None]

\* The capture loop died with a chunk in the buffer; the stop that followed
\* returned None and wrote no file.
C20_Witness ==
    /\ pyaudio
    /\ \E t \in Threads :
          /\ Returned(t, "stop_recording")
          /\ loc[t].entry_mode = "voice"
          /\ ~loc[t].entry_audio
    /\ recs[CoordRec].frames # <<>>
    /\ files = {}

\* C21: when the write of the WAV file fails during a voice session's
\* stop_recording, the call returns None, on_recording_stop receives None
\* rather than the path of a file that was not written, and current_mode is
\* None again.
C21_FailedFlushYieldsNone ==
    \A t \in Threads :
        (Returned(t, "stop_recording") /\ loc[t].entry_mode = "voice"
            /\ loc[t].fault = "save")
        => /\ loc[t].ret = None
           /\ Last(cb) = [kind |-> "stop", mode |-> "voice", path |-> None]
           /\ current_mode = "None"

\* C25: without the audio backend, start_video_memo called when idle returns
\* with current_mode "video", the sidecar's start_recording never called and no
\* capture thread; the stop_recording that follows, the writer releasing
\* without error, calls the sidecar's stop_recording to no effect: it returns
\* the video path without raising, no audio file exists, and current_mode is
\* None.
C25_VideoWithoutAudioBackend ==
    \A t \in Threads :
        /\ (Returned(t, "start_video_memo") /\ loc[t].entry_mode = "None" /\ ~pyaudio)
           => /\ loc[t].status = "returned"
              /\ current_mode = "video"
              /\ loc[t].ret = video_recorder.current_file
              /\ video_recorder.is_recording
              /\ CallsOn("sidecar", "start") = {}
              /\ threads = {}
        /\ (Returned(t, "stop_recording") /\ loc[t].entry_mode = "video" /\ ~pyaudio
               /\ Cardinality(CallsOn("video", "stop")) = 1
               /\ loc[t].fault # "release")
           => /\ loc[t].status = "returned"
              /\ loc[t].ret = video_recorder.current_file
              /\ loc[t].ret # None
              /\ Cardinality(CallsOn("sidecar", "stop")) = 1
              /\ \A f \in files : ~EndsWith(f.path, <<".wav">>)
              /\ threads = {}
              /\ current_mode = "None"

\* A video session without the audio backend was started and stopped: the
\* video file is there, the call returned its path.
C25_Witness ==
    /\ ~pyaudio
    /\ \E t \in Threads :
          /\ Returned(t, "stop_recording")
          /\ loc[t].entry_mode = "video"
          /\ loc[t].status = "returned"
          /\ loc[t].ret # None
          /\ FileExists(loc[t].ret)
    /\ CallsOn("sidecar", "stop") # {}

\* C26: whenever no coordinator call is under way, current_mode is "voice"
\* exactly when the coordinator's AudioRecorder is recording and "video"
\* exactly when the VideoRecorder is recording.
C26_ModeAgreesWithRecorders ==
    AllIdle
    => /\ current_mode = "voice" <=> recs[CoordRec].is_recording
       /\ current_mode = "video" <=> video_recorder.is_recording

\* C28: the lifecycle callbacks fired since a start was last accepted
\* alternate, beginning with a start: on_recording_start(m), then
\* on_recording_stop(m, path) with the same mode m, for calls made by the
\* caller thread and by the voice-listener thread in any interleaving.
C28_CallbacksAlternate ==
    \A i \in DOMAIN cb :
        IF i % 2 = 1
        THEN cb[i].kind = "start"
        ELSE cb[i].kind = "stop" /\ cb[i].mode = cb[i - 1].mode

\* The capture threads running for recorder r.
CaptureThreads(r) == {th \in threads : th.rec = r}

\* The capture thread that the latest start_recording of recorder r spawned.
SessionThread(r) ==
    CHOOSE th \in CaptureThreads(r) : \A other \in CaptureThreads(r) : other.sess <= th.sess

\* C29: a recording AudioRecorder has at most one capture thread between its
\* stream.read and its append, and every chunk in its buffer was appended by
\* the thread its latest start_recording spawned: a thread left over from a
\* stop_recording whose join timed out neither runs beside the new one nor
\* appends to the new session's buffer.
C29_OneCaptureThreadPerBuffer ==
    \A r \in DOMAIN recs :
        (recs[r].is_recording /\ CaptureThreads(r) # {})
        => /\ Cardinality({th \in CaptureThreads(r) : th.pc = "read"}) <= 1
           /\ \A i \in DOMAIN recs[r].frames : recs[r].frames[i] = SessionThread(r).sess

\* The listen threads that are inside the body of _listen_loop's while loop.
ListenLoops == {t \in ListenThreads : outer[t] \notin {"off", "check"}}

\* C23: in every reachable state at most one listen thread of the
\* VoiceRecognizer is inside its loop, whatever start and stop calls were
\* made, a stop_listening whose join timed out followed by a start_listening
\* included.
C23_OneListenLoop == Cardinality(ListenLoops) <= 1

\* C24: a listen loop that has caught sr.RequestError from recognize_google
\* and logged it goes through the backoff sleep before its next cycle: the
\* step that leaves the handler leads to the sleep, not to the loop test, and
\* the thread does not end.
C24_RequestErrorBacksOff ==
    [][\A t \in ListenThreads :
          outer[t] = "request_error" => outer'[t] \in {"request_error", "sleep"}]_vars

\* C27: once SmartMirrorMemo.stop has returned, and until the caller starts
\* the system again, no recording session is active: current_mode is None and
\* neither recorder of the coordinator is recording, whatever the listen
\* threads deliver during or after the stop.
C27_NoSessionAfterStop ==
    (~is_active /\ ~is_listening /\ outer["caller"] = "none")
    => /\ current_mode = "None"
       /\ ~recs[CoordRec].is_recording
       /\ ~video_recorder.is_recording

\* C22: get_all_memos never raises to its caller, also when another thread's
\* delete_memo removes a file between the directory listing and the reads of
\* that file: the file is left out of the result or gets a fallback entry.
C22_ListingNeverRaises ==
    \A t \in Threads :
        Returned(t, "get_all_memos")
        => /\ loc[t].status = "returned"
           /\ \A i \in DOMAIN loc[t].ret : loc[t].ret[i].type \in {"voice", "video"}

====
